---- MODULE Spec2Model ----
(***************************************************************************)
(* Model of the OGC application package generator:                         *)
(*   build_cwl_workflow.py  (process_value, set_path_value,                *)
(*                           add_input_default, yaml_to_cwl)               *)
(*   deploy_app_pack.py     (submit_request, deploy_app_pack)              *)
(*                                                                         *)
(* YAML / Python scalars are records [t, s]: t is the Python type and s    *)
(* the textual form (what str() returns) as a tuple of code points.        *)
(* Dictionaries are functions; lists indexed by the code with 0-based      *)
(* indices are functions on 0..n-1; lists the code only appends to are     *)
(* sequences.                                                              *)
(***************************************************************************)
EXTENDS Integers, Sequences, FiniteSets, TLC

\* ------------------------------------------------------------------ bounds
\* longest `inputs` list of a configuration
MaxInputs == 2
\* longest `outputs` list of a configuration
MaxOutputs == 2
\* most keys of the key map a configuration leaves out
MaxAbsent == 1
\* longest string handed to process_value
MaxLen == 3

\* ------------------------------------------------------------ scalar values
Null == [t |-> "null", s |-> <<>>]
Str(cs) == [t |-> "str", s |-> cs]
Num(cs) == [t |-> "float", s |-> cs]
FalseV == [t |-> "bool", s |-> <<70, 97, 108, 115, 101>>]
EmptyStr == Str(<<>>)

\* str(value): the textual form of a scalar
PyStr(v) == IF v.t = "null" THEN <<78, 111, 110, 101>> ELSE v.s

\* the type names add_input_default matches on, and one primitive type
FileT == Str(<<70, 105, 108, 101>>)
DirectoryT == Str(<<68, 105, 114, 101, 99, 116, 111, 114, 121>>)
StringT == Str(<<115, 116, 114, 105, 110, 103>>)

\* dict.get(key): None when the key is missing
Get(d, k) == IF k \in DOMAIN d THEN d[k] ELSE Null

\* dict.get(key, default)
GetOr(d, k, default) == IF k \in DOMAIN d THEN d[k] ELSE default

\* d[k] = v on a dictionary: overwrite, or insert the key
SetItem(d, k, v) == [x \in (DOMAIN d) \cup {k} |-> IF x = k THEN v ELSE d[x]]

EmptyDict == [x \in {} |-> Null]

\* --------------------------------------------------------- process_value
\* the character class [a-zA-Z0-9 ] of the regular expression
InClass(c) ==
    \/ c \in 97..122
    \/ c \in 65..90
    \/ c \in 48..57
    \/ c = 32

\* re.sub(r'[^a-zA-Z0-9 ]', '_', text)
ReSub(text) == [n \in 1..Len(text) |-> IF InClass(text[n]) THEN text[n] ELSE 95]

\* the last segment of the version destination, "s:version"
VersionKey == "s:version"

\* (variant: the first path segment is matched, not the last)
process_value_FirstSegment(target, value) ==
    IF target[1] = VersionKey
    THEN Str(ReSub(PyStr(value)))
    ELSE value

process_value(target, value) ==
    IF target[Len(target)] = VersionKey
    THEN Str(ReSub(PyStr(value)))
    ELSE value

\* -------------------------------------------------------- set_path_value
\* every workflow[key] of the descent finds its key
RECURSIVE CanDescend(_, _)
CanDescend(w, path) ==
    \/ Len(path) = 1
    \/ /\ path[1] \in DOMAIN w
       /\ CanDescend(w[path[1]], Tail(path))

RECURSIVE set_path_value(_, _, _)
set_path_value(w, path, value) ==
    IF Len(path) = 1
    THEN SetItem(w, path[1], value)
    ELSE [w EXCEPT ![path[1]] = set_path_value(w[path[1]], Tail(path), value)]

\* ------------------------------------------------------ add_input_default
\* (variant: the "Directory" alternative of the case is lost)
add_input_default_FileOnly(input_type, input_default) ==
    IF input_type = FileT
    THEN [class |-> input_type, path |-> input_default]
    ELSE input_default

add_input_default(input_type, input_default) ==
    IF input_type = DirectoryT \/ input_type = FileT
    THEN [class |-> input_type, path |-> input_default]
    ELSE input_default

\* ------------------------------------------------------ the key map
\* the keys of OGC_CWL_KEY_MAP in the order the loop visits them
KeyOrder ==
    << "algorithm_description", "algorithm_name", "algorithm_version", "author",
       "citation", "code_repository", "contributor", "cores_min", "keywords",
       "license", "outdir_max", "ram_min", "release_notes", "run_command" >>

Keys == {KeyOrder[n] : n \in 1..Len(KeyOrder)}

OGC_CWL_KEY_MAP(key) ==
    CASE key = "algorithm_description" -> << <<"$graph", 0, "doc">> >>
      [] key = "algorithm_name" -> << <<"$graph", 0, "label">>, <<"$graph", 0, "id">> >>
      [] key = "algorithm_version" -> << <<"s:version">> >>
      [] key = "author" -> << <<"s:author", 0, "s:name">> >>
      [] key = "citation" -> << <<"s:citation">> >>
      [] key = "code_repository" -> << <<"s:codeRepository">> >>
      [] key = "contributor" -> << <<"s:contributor", 0, "s:name">> >>
      [] key = "cores_min" ->
            << <<"$graph", 1, "requirements", "ResourceRequirement", "coresMin">> >>
      [] key = "keywords" -> << <<"s:keywords">> >>
      [] key = "license" -> << <<"s:license">> >>
      [] key = "outdir_max" ->
            << <<"$graph", 1, "requirements", "ResourceRequirement", "outdirMax">> >>
      [] key = "ram_min" ->
            << <<"$graph", 1, "requirements", "ResourceRequirement", "ramMin">> >>
      [] key = "release_notes" -> << <<"s:releaseNotes">> >>
      [] key = "run_command" -> << <<"$graph", 1, "baseCommand">> >>

\* (variant: only the first destination of a key is written)
WriteTargets_FirstOnly(w, targets, value) ==
    IF ~CanDescend(w, Head(targets)) THEN [ok |-> FALSE, w |-> w]
    ELSE [ok |-> TRUE,
          w |-> set_path_value(w, Head(targets),
                               process_value(Head(targets), value))]

\* the inner loop `for target in targets`: [ok, w]; ok is FALSE when a
\* descent raised a lookup error, and w then holds the writes made before it
RECURSIVE WriteTargets(_, _, _)
WriteTargets(w, targets, value) ==
    IF targets = <<>> THEN [ok |-> TRUE, w |-> w]
    ELSE IF ~CanDescend(w, Head(targets)) THEN [ok |-> FALSE, w |-> w]
    ELSE WriteTargets(
             set_path_value(w, Head(targets), process_value(Head(targets), value)),
             Tail(targets), value)

\* one iteration of `for key in OGC_CWL_KEY_MAP`: [ok, w, warned]
MapKey(w, cfg, key) ==
    IF key \in DOMAIN cfg
    THEN LET r == WriteTargets(w, OGC_CWL_KEY_MAP(key), cfg[key])
         IN  [ok |-> r.ok, w |-> r.w, warned |-> 0]
    ELSE [ok |-> TRUE, w |-> w, warned |-> 1]

\* the loop over the keys from position n on: [ok, w, warned]
RECURSIVE MapKeys(_, _, _)
MapKeys(w, cfg, n) ==
    IF n > Len(KeyOrder) THEN [ok |-> TRUE, w |-> w, warned |-> 0]
    ELSE LET r == MapKey(w, cfg, KeyOrder[n])
         IN  IF ~r.ok THEN r
             ELSE LET rest == MapKeys(r.w, cfg, n + 1)
                  IN  [ok |-> rest.ok, w |-> rest.w,
                       warned |-> r.warned + rest.warned]

\* ---------------------------------------------------- workflow templates
Placeholder == Str(<<63>>)

TemplateFull ==
    ("$graph" :>
       ((0 :> [doc |-> Placeholder, label |-> Placeholder, id |-> Placeholder,
               inputs |-> EmptyDict, outputs |-> EmptyDict,
               steps |-> [process |-> [in |-> EmptyDict, out |-> <<>>,
                                       run |-> Placeholder]]])
        @@
        (1 :> [baseCommand |-> Placeholder,
               inputs |-> EmptyDict, outputs |-> EmptyDict,
               requirements |->
                   [DockerRequirement |-> [dockerPull |-> Placeholder],
                    ResourceRequirement |->
                        [coresMin |-> Placeholder, outdirMax |-> Placeholder,
                         ramMin |-> Placeholder]]])))
    @@ ("cwlVersion" :> Placeholder)
    @@ ("s:version" :> Placeholder)
    @@ ("s:author" :> (0 :> (("s:name" :> Placeholder) @@ ("class" :> Placeholder))))
    @@ ("s:citation" :> Placeholder)
    @@ ("s:codeRepository" :> Placeholder)
    @@ ("s:contributor" :> (0 :> (("s:name" :> Placeholder) @@ ("class" :> Placeholder))))
    @@ ("s:keywords" :> Placeholder)
    @@ ("s:license" :> Placeholder)
    @@ ("s:releaseNotes" :> Placeholder)

Without(d, k) == [x \in (DOMAIN d) \ {k} |-> d[x]]

\* a template with no release-notes slot: the write inserts the key
TemplateNoNotes == Without(TemplateFull, "s:releaseNotes")

\* a template with no contributor list: the descent to it fails
TemplateNoContributor == Without(TemplateFull, "s:contributor")

Templates == {TemplateFull, TemplateNoNotes, TemplateNoContributor}

\* ------------------------------------------------------------ the state
VARIABLES
    config,             \* the configuration loaded from --yaml-file
    template,           \* the template as loaded from --cwl-template-file
    env,                \* the process environment
    workflow,           \* the document being built
    pc,                 \* where yaml_to_cwl stands
    err,                \* the exception that ended the run, or "none"
    warnings,           \* number of logging.warning calls
    input_param_names,
    workflow_inputs, process_inputs, step_inputs,
    workflow_outputs, process_outputs, step_outputs,
    nin,                \* input records consumed by the first loop
    nout,               \* output records consumed by the second loop
    files               \* the output directory: file name -> document written

buildVars ==
    << config, template, env, workflow, pc, err, warnings, input_param_names,
       workflow_inputs, process_inputs, step_inputs,
       workflow_outputs, process_outputs, step_outputs, nin, nout, files >>

\* the state of a deployment (deploy_app_pack.py)
VARIABLES
    d_pc,               \* where the deployment stands
    d_file,             \* the deployment request loaded from the template file
    d_url,              \* --process-cwl-url
    d_registry,         \* --app-pack-register-endpoint
    d_token,            \* os.getenv('MAAP_PGT')
    d_data,             \* the body handed to submit_request
    d_headers,          \* the headers handed to submit_request
    d_put_url,          \* the address of the follow-up request
    d_sent,             \* the requests sent, in order
    d_post,             \* what the POST was answered with
    d_result            \* what deploy_app_pack returned or raised

deployVars ==
    << d_pc, d_file, d_url, d_registry, d_token, d_data, d_headers, d_put_url,
       d_sent, d_post, d_result >>

\* the state of one call of process_value
VARIABLES
    pv_pc,
    pv_target,
    pv_value,
    pv_result

valueVars == << pv_pc, pv_target, pv_value, pv_result >>

vars == << buildVars, deployVars, valueVars >>

\* no deployment and no call of process_value is under way
DeployIdle ==
    /\ d_pc = "idle"
    /\ d_file = EmptyDict
    /\ d_url = Null
    /\ d_registry = Null
    /\ d_token = Null
    /\ d_data = EmptyDict
    /\ d_headers = EmptyDict
    /\ d_put_url = Null
    /\ d_sent = <<>>
    /\ d_post = [kind |-> "none"]
    /\ d_result = "none"

ValueIdle ==
    /\ pv_pc = "idle"
    /\ pv_target = <<>>
    /\ pv_value = Null
    /\ pv_result = Null

\* config.get("inputs", []) and config.get("outputs", [])
ConfigInputs(cfg) == IF "inputs" \in DOMAIN cfg THEN cfg["inputs"] ELSE <<>>
ConfigOutputs(cfg) == IF "outputs" \in DOMAIN cfg THEN cfg["outputs"] ELSE <<>>

\* (variant: the first entry of a key is kept)
RECURSIVE MergeDicts_FirstWins(_)
MergeDicts_FirstWins(list) ==
    IF list = <<>> THEN EmptyDict
    ELSE list[1] @@ MergeDicts_FirstWins(Tail(list))

\* {k: v for d in list for k, v in d.items()}: a later entry overwrites
RECURSIVE MergeDicts(_)
MergeDicts(list) ==
    IF list = <<>> THEN EmptyDict
    ELSE list[Len(list)] @@ MergeDicts(SubSeq(list, 1, Len(list) - 1))

\* the f-string "--{input_name}"
Prefix(input_name) == Str(<<45, 45>> \o PyStr(input_name))

\* the entry of workflow_inputs built for one input record
WorkflowInput(input) ==
    LET input_type == Get(input, "type")
        input_default == Get(input, "default")
        decl == [doc |-> Get(input, "doc"), label |-> Get(input, "label"),
                 type |-> input_type]
    IN  IF input_default # Null
        THEN SetItem(decl, "default", add_input_default(input_type, input_default))
        ELSE decl

\* (variant: the position is the 0-based index)
ProcessInput_ZeroBased(input, count) ==
    LET input_type == Get(input, "type")
        input_default == Get(input, "default")
        bind == [type |-> input_type,
                 inputBinding |-> [position |-> count,
                                   prefix |-> Prefix(Get(input, "name"))]]
    IN  IF input_default # Null
        THEN SetItem(bind, "default", add_input_default(input_type, input_default))
        ELSE bind

\* the entry of process_inputs built for one input record, `count` entries
\* being in process_inputs already
ProcessInput(input, count) ==
    LET input_type == Get(input, "type")
        input_default == Get(input, "default")
        bind == [type |-> input_type,
                 inputBinding |-> [position |-> count + 1,
                                   prefix |-> Prefix(Get(input, "name"))]]
    IN  IF input_default # Null
        THEN SetItem(bind, "default", add_input_default(input_type, input_default))
        ELSE bind

\* (variant: the slot is bound to the command-line prefix)
StepInput_Prefixed(input_name) == input_name :> Prefix(input_name)

\* the entry of step_inputs built for one input record
StepInput(input_name) == input_name :> input_name

\* (variant: the uniqueness check is left out)
SeenBefore_Unchecked(input_name, names) == FALSE

\* `input_name not in input_param_names`, negated
SeenBefore(input_name, names) == input_name \in names

\* ----------------------------------------------------------- yaml_to_cwl
\* the Field Mapper loop
FieldMapper ==
    /\ pc = "map"
    /\ UNCHANGED << deployVars, valueVars >>
    /\ LET r == MapKeys(workflow, config, 1)
       IN  /\ workflow' = r.w
           /\ warnings' = warnings + r.warned
           /\ pc' = IF r.ok THEN "inputs" ELSE "error"
           /\ err' = IF r.ok THEN err ELSE "KeyError"
    /\ UNCHANGED << config, template, env, input_param_names, workflow_inputs,
                    process_inputs, step_inputs, workflow_outputs,
                    process_outputs, step_outputs, nin, nout, files >>

\* one iteration of `for input in config.get("inputs", [])`
ProjectInput ==
    /\ pc = "inputs"
    /\ UNCHANGED << deployVars, valueVars >>
    /\ nin < Len(ConfigInputs(config))
    /\ LET input == ConfigInputs(config)[nin + 1]
           input_name == Get(input, "name")
       IN  IF SeenBefore(input_name, input_param_names)
           THEN /\ pc' = "error"
                /\ err' = "ValueError"
                /\ UNCHANGED << input_param_names, warnings, workflow_inputs,
                                process_inputs, step_inputs, nin >>
           ELSE /\ input_param_names' = input_param_names \cup {input_name}
                /\ warnings' = IF input_name = Null \/ Get(input, "type") = Null
                               THEN warnings + 1 ELSE warnings
                /\ workflow_inputs' =
                       Append(workflow_inputs, input_name :> WorkflowInput(input))
                /\ process_inputs' =
                       Append(process_inputs,
                              input_name :> ProcessInput(input, Len(process_inputs)))
                /\ step_inputs' = Append(step_inputs, StepInput(input_name))
                /\ nin' = nin + 1
                /\ UNCHANGED << pc, err >>
    /\ UNCHANGED << config, template, env, workflow, workflow_outputs,
                    process_outputs, step_outputs, nout, files >>

\* a run of workflow[...] = value statements, each a <<path, value>>:
\* [ok, w]; ok is FALSE when a descent raised a lookup error, and w then
\* holds the assignments made before it
RECURSIVE Assign(_, _)
Assign(w, writes) ==
    IF writes = <<>> THEN [ok |-> TRUE, w |-> w]
    ELSE IF ~CanDescend(w, writes[1][1]) THEN [ok |-> FALSE, w |-> w]
    ELSE Assign(set_path_value(w, writes[1][1], writes[1][2]), Tail(writes))

\* the end of the first loop: merge the lists and graft them onto the document
GraftInputs ==
    /\ pc = "inputs"
    /\ UNCHANGED << deployVars, valueVars >>
    /\ nin = Len(ConfigInputs(config))
    /\ workflow_inputs' = MergeDicts(workflow_inputs)
    /\ process_inputs' = MergeDicts(process_inputs)
    /\ step_inputs' = MergeDicts(step_inputs)
    /\ LET r == Assign(workflow,
                       << << <<"$graph", 0, "inputs">>, workflow_inputs' >>,
                          << <<"$graph", 1, "inputs">>, process_inputs' >>,
                          << <<"$graph", 0, "steps", "process", "in">>,
                             step_inputs' >> >>)
       IN  /\ workflow' = r.w
           /\ pc' = IF r.ok THEN "outputs" ELSE "error"
           /\ err' = IF r.ok THEN err ELSE "KeyError"
    /\ UNCHANGED << config, template, env, warnings, input_param_names,
                    workflow_outputs, process_outputs, step_outputs, nin, nout,
                    files >>

\* the entry of process_outputs built for one output record
ProcessOutput(output) ==
    "outputs_result" :> [outputBinding |-> [glob |-> "./output*"],
                         type |-> Get(output, "type")]

\* one iteration of `for output in config.get("outputs", [])`
ProjectOutput ==
    /\ pc = "outputs"
    /\ UNCHANGED << deployVars, valueVars >>
    /\ nout < Len(ConfigOutputs(config))
    /\ LET output == ConfigOutputs(config)[nout + 1]
           output_name == Get(output, "name")
           output_type == Get(output, "type")
       IN  /\ warnings' = IF output_name = Null \/ output_type = Null
                          THEN warnings + 1 ELSE warnings
           /\ workflow_outputs' =
                  Append(workflow_outputs,
                         output_name :> [type |-> output_type,
                                         outputSource |-> "process/outputs_result"])
           /\ process_outputs' = Append(process_outputs, ProcessOutput(output))
           /\ step_outputs' = Append(step_outputs, "outputs_result")
    /\ nout' = nout + 1
    /\ UNCHANGED << config, template, env, workflow, pc, err, input_param_names,
                    workflow_inputs, process_inputs, step_inputs, nin, files >>

\* the end of the second loop: merge the lists and graft them onto the document
GraftOutputs ==
    /\ pc = "outputs"
    /\ UNCHANGED << deployVars, valueVars >>
    /\ nout = Len(ConfigOutputs(config))
    /\ workflow_outputs' = MergeDicts(workflow_outputs)
    /\ process_outputs' = MergeDicts(process_outputs)
    /\ LET r == Assign(workflow,
                       << << <<"$graph", 0, "outputs">>, workflow_outputs' >>,
                          << <<"$graph", 1, "outputs">>, process_outputs' >>,
                          << <<"$graph", 0, "steps", "process", "out">>,
                             step_outputs >> >>)
       IN  /\ workflow' = r.w
           /\ pc' = IF r.ok THEN "stamp" ELSE "error"
           /\ err' = IF r.ok THEN err ELSE "KeyError"
    /\ UNCHANGED << config, template, env, warnings, input_param_names,
                    workflow_inputs, process_inputs, step_inputs, step_outputs,
                    nin, nout, files >>

\* date.today(), and the literal "1.0.0"
DateToday == [t |-> "date", s |-> <<>>]
SoftwareVersion == Str(<<49, 46, 48, 46, 48>>)

\* the metadata that is not in the configuration
Stamp ==
    /\ pc = "stamp"
    /\ UNCHANGED << deployVars, valueVars >>
    /\ LET r == Assign(workflow,
                       << << <<"s:dateCreated">>, DateToday >>,
                          << <<"s:softwareVersion">>, SoftwareVersion >>,
                          << <<"$graph", 1, "requirements", "DockerRequirement",
                                "dockerPull">>, Get(env, "DOCKER_TAG") >>,
                          << <<"s:commitHash">>, Get(env, "GIT_COMMIT_HASH") >> >>)
       IN  /\ workflow' = r.w
           /\ pc' = IF r.ok THEN "dump" ELSE "error"
           /\ err' = IF r.ok THEN err ELSE "KeyError"
    /\ UNCHANGED << config, template, env, warnings, input_param_names,
                    workflow_inputs, process_inputs, step_inputs,
                    workflow_outputs, process_outputs, step_outputs, nin, nout,
                    files >>

\* os.getenv('WORKFLOW_FILE_NAME', 'process.cwl')
WorkflowFileName(e) ==
    IF "WORKFLOW_FILE_NAME" \in DOMAIN e THEN e["WORKFLOW_FILE_NAME"]
    ELSE Str(<<112, 114, 111, 99, 101, 115, 115, 46, 99, 119, 108>>)

\* open the workflow file and dump the document into it
Dump ==
    /\ pc = "dump"
    /\ UNCHANGED << deployVars, valueVars >>
    /\ files' = SetItem(files, WorkflowFileName(env), workflow)
    /\ pc' = "done"
    /\ UNCHANGED << config, template, env, workflow, err, warnings,
                    input_param_names, workflow_inputs, process_inputs,
                    step_inputs, workflow_outputs, process_outputs,
                    step_outputs, nin, nout >>

NextBuild ==
    \/ FieldMapper
    \/ ProjectInput
    \/ GraftInputs
    \/ ProjectOutput
    \/ GraftOutputs
    \/ Stamp
    \/ Dump

\* ------------------------------------------- the configurations explored
KeyIndex(key) == CHOOSE n \in 1..Len(KeyOrder) : KeyOrder[n] = key

\* a value of its own for every key, so that a write to the wrong place shows
ConfigValue(key) == Str(<<64 + KeyIndex(key)>>)

\* "v1.0!", the float 1.0 and "main"
VersionValues ==
    {Str(<<118, 49, 46, 48, 33>>), Num(<<49, 46, 48>>), Str(<<109, 97, 105, 110>>)}

KeySets == {K \in SUBSET Keys : Cardinality(Keys \ K) <= MaxAbsent} \cup {{}}

Envs ==
    {EmptyDict,
     [DOCKER_TAG |-> Str(<<105>>), GIT_COMMIT_HASH |-> Str(<<104>>),
      WORKFLOW_FILE_NAME |-> Str(<<119>>)]}

\* the n-th input name: "a", "b", ...
NameAt(n) == Str(<<96 + n>>)
Names == {NameAt(n) : n \in 1..MaxInputs}

Zero == [t |-> "int", s |-> <<48>>]
DocLabel == [doc |-> Str(<<100>>), label |-> Str(<<108>>)]

Opt(key, values) == {EmptyDict} \cup {key :> v : v \in values}

SeqsUpTo(S, n) == UNION {[1..m -> S] : m \in 0..n}

\* records that differ in having a name and a type
NameRecords ==
    {a @@ b @@ DocLabel : a \in Opt("name", Names), b \in Opt("type", {StringT})}

\* what a record says about its type and default
TypeDefaults ==
    {a @@ b : a \in Opt("type", {FileT, DirectoryT, StringT}),
              b \in Opt("default", {Null, EmptyStr, Zero, FalseV, Str(<<120>>)})}

\* lists whose n-th record is named NameAt(n)
NamedInOrder(td) == [n \in 1..Len(td) |-> ("name" :> NameAt(n)) @@ td[n] @@ DocLabel]
DefaultLists == {NamedInOrder(td) : td \in SeqsUpTo(TypeDefaults, MaxInputs)}

InputLists == SeqsUpTo(NameRecords, MaxInputs) \cup DefaultLists

OutNames == {Str(<<111>>), Str(<<112>>)}
OutputRecords ==
    {a @@ b : a \in Opt("name", OutNames), b \in Opt("type", {FileT, StringT})}
OutputLists == SeqsUpTo(OutputRecords, MaxOutputs)

OneInput ==
    << [name |-> NameAt(1), type |-> FileT, default |-> Str(<<120>>)] @@ DocLabel >>
OneOutput == << [name |-> Str(<<111>>), type |-> FileT] >>

Section(key, list) == IF list = <<>> THEN EmptyDict ELSE key :> list

MakeConfig(present, version, ins, outs) ==
    [k \in present |-> IF k = "algorithm_version" THEN version ELSE ConfigValue(k)]
    @@ Section("inputs", ins) @@ Section("outputs", outs)

\* the state when the two files are loaded and the output directory exists
Loaded(cfg, tmpl, e) ==
    /\ config = cfg
    /\ template = tmpl
    /\ env = e
    /\ workflow = tmpl
    /\ pc = "map"
    /\ err = "none"
    /\ warnings = 0
    /\ input_param_names = {}
    /\ workflow_inputs = <<>>
    /\ process_inputs = <<>>
    /\ step_inputs = <<>>
    /\ workflow_outputs = <<>>
    /\ process_outputs = <<>>
    /\ step_outputs = <<>>
    /\ nin = 0
    /\ nout = 0
    /\ files = EmptyDict

\* configurations that differ in the keys they hold, over every template
InitKeys ==
    \E K \in KeySets, v \in VersionValues, tmpl \in Templates, e \in Envs :
        Loaded(MakeConfig(K, v, <<>>, <<>>), tmpl, e)

\* configurations that differ in their inputs
InitInputs ==
    \E ins \in InputLists, outs \in {<<>>, OneOutput} :
        Loaded(MakeConfig(Keys, Str(<<109, 97, 105, 110>>), ins, outs),
               TemplateFull, EmptyDict)

\* configurations that differ in their outputs
InitOutputs ==
    \E outs \in OutputLists, ins \in {<<>>, OneInput} :
        Loaded(MakeConfig(Keys, Str(<<109, 97, 105, 110>>), ins, outs),
               TemplateFull, EmptyDict)

Init ==
    /\ InitKeys \/ InitInputs \/ InitOutputs
    /\ DeployIdle
    /\ ValueIdle

Next == NextBuild

Spec == Init /\ [][Next]_vars

\* no build is under way
BuildIdle ==
    /\ config = EmptyDict
    /\ template = EmptyDict
    /\ env = EmptyDict
    /\ workflow = EmptyDict
    /\ pc = "idle"
    /\ err = "none"
    /\ warnings = 0
    /\ input_param_names = {}
    /\ workflow_inputs = <<>>
    /\ process_inputs = <<>>
    /\ step_inputs = <<>>
    /\ workflow_outputs = <<>>
    /\ process_outputs = <<>>
    /\ step_outputs = <<>>
    /\ nin = 0
    /\ nout = 0
    /\ files = EmptyDict

\* ------------------------------------------------ calls of process_value
\* a, Z, 9, space, ".", "_", "[", line feed, e-acute
Alphabet == {97, 90, 57, 32, 46, 95, 91, 10, 233}

\* strings up to MaxLen, and a float, an integer, a boolean and None
RawValues ==
    {Str(cs) : cs \in SeqsUpTo(Alphabet, MaxLen)}
        \cup {Num(<<49, 46, 48>>), Zero, FalseV, Null}

\* the destination paths of the key map, and two paths that hold the version
\* key elsewhere than the key map does
TargetAt(key, n) == OGC_CWL_KEY_MAP(key)[n]
ExtraTargets == << <<"$graph", 0, "s:version">>, <<"s:version", 0, "s:name">> >>

InitValue ==
    /\ BuildIdle
    /\ DeployIdle
    /\ pv_pc = "call"
    /\ \/ \E key \in Keys : \E n \in 1..Len(OGC_CWL_KEY_MAP(key)) :
              pv_target = TargetAt(key, n)
       \/ \E n \in 1..Len(ExtraTargets) : pv_target = ExtraTargets[n]
    /\ pv_value \in RawValues
    /\ pv_result = Null

CallProcessValue ==
    /\ pv_pc = "call"
    /\ pv_result' = process_value(pv_target, pv_value)
    /\ pv_pc' = "return"
    /\ UNCHANGED << buildVars, deployVars, pv_target, pv_value >>

NextValue == CallProcessValue

SpecValue == InitValue /\ [][NextValue]_vars

\* --------------------------------------------------- deploy_app_pack.py
\* the truth value Python gives a scalar
Truthy(v) == v \notin {Null, EmptyStr, Zero, FalseV}

\* JSON texts: not JSON at all, an array, a string, an object
NotJson == [json |-> "invalid"]
JArray == [json |-> "array"]
JString(v) == [json |-> "string", v |-> v]
JObject(members) == [json |-> "object", members |-> members]

\* what the registry (or the network) answers a request with
Failure == [kind |-> "failure"]
Response(status, body) == [kind |-> "response", status |-> status, body |-> body]

\* Response.raise_for_status() raises HTTPError
RaisesForStatus(status) == status >= 400 /\ status < 600

\* (variant: the process identifier is left out of the address)
PutUrl_NoId(url, process_id) == Str(PyStr(url))

\* the f-string "{url}/{process_id}"
PutUrl(url, process_id) == Str(PyStr(url) \o <<47>> \o PyStr(process_id))

\* the handler of a 409: what reading the process identifier out of the body
\* comes to: [outcome, process_id]; outcome is "put" when the identifier was
\* read, "False" when the inner handler caught the exception, and the name of
\* the exception when nothing caught it
ReadProcessId(body) ==
    IF body.json = "invalid" THEN [outcome |-> "False", process_id |-> Null]
    ELSE IF body.json # "object"
         THEN [outcome |-> "AttributeError", process_id |-> Null]
    ELSE IF "additionalProperties" \notin DOMAIN body.members
         THEN [outcome |-> "False", process_id |-> Null]
    ELSE LET props == body.members["additionalProperties"]
         IN  IF props.json # "object"
             THEN [outcome |-> "TypeError", process_id |-> Null]
             ELSE IF "processID" \notin DOMAIN props.members
                  THEN [outcome |-> "False", process_id |-> Null]
                  ELSE [outcome |-> "put",
                        process_id |-> props.members["processID"].v]

\* (variant: the address is never written into the request)
InjectHref_Never(data, url) == data

\* lines 77-78: write the address into executionUnit.href when one is there
InjectHref(data, url) ==
    IF Truthy(Get(GetOr(data, "executionUnit", EmptyDict), "href"))
    THEN [data EXCEPT !["executionUnit"]["href"] = url]
    ELSE data

\* data.get("executionUnit", {}) is None: .get on it raises AttributeError
ExecutionUnitIsNone(data) ==
    "executionUnit" \in DOMAIN data /\ data["executionUnit"] = Null

\* deploy_app_pack up to the call of submit_request
DeployAppPack ==
    /\ d_pc = "start"
    /\ IF ExecutionUnitIsNone(d_file)
       THEN /\ d_pc' = "raised"
            /\ d_result' = "AttributeError"
            /\ UNCHANGED << d_data, d_headers >>
       ELSE /\ d_data' = InjectHref(d_file, d_url)
            /\ IF ~Truthy(d_token)
               THEN /\ d_pc' = "raised"
                    /\ d_result' = "ValueError"
                    /\ UNCHANGED d_headers
               ELSE /\ d_pc' = "post"
                    /\ d_headers' = ("proxy-ticket" :> d_token)
                                        @@ ("Content-Type" :> "application/json")
                    /\ UNCHANGED d_result
    /\ UNCHANGED << d_file, d_url, d_registry, d_token, d_put_url, d_sent, d_post >>
    /\ UNCHANGED << buildVars, valueVars >>

Request(method, url) ==
    [method |-> method, url |-> url, data |-> d_data, headers |-> d_headers]

\* submit_request from the POST to the end of the handling of its answer
Post(answer) ==
    /\ d_pc = "post"
    /\ d_sent' = Append(d_sent, Request("POST", d_registry))
    /\ d_post' = answer
    /\ IF answer.kind = "failure"
       THEN /\ d_pc' = "returned"
            /\ d_result' = "False"
            /\ UNCHANGED d_put_url
       ELSE IF ~RaisesForStatus(answer.status)
       THEN /\ d_pc' = "returned"
            /\ d_result' = "True"
            /\ UNCHANGED d_put_url
       ELSE IF answer.status # 409
       THEN /\ d_pc' = "returned"
            /\ d_result' = "False"
            /\ UNCHANGED d_put_url
       ELSE LET r == ReadProcessId(answer.body)
            IN  IF r.outcome = "put"
                THEN /\ d_pc' = "put"
                     /\ d_put_url' = PutUrl(d_registry, r.process_id)
                     /\ UNCHANGED d_result
                ELSE /\ d_pc' = IF r.outcome = "False" THEN "returned" ELSE "raised"
                     /\ d_result' = r.outcome
                     /\ UNCHANGED d_put_url
    /\ UNCHANGED << d_file, d_url, d_registry, d_token, d_data, d_headers >>
    /\ UNCHANGED << buildVars, valueVars >>

\* submit_request from the PUT to its return
Put(answer) ==
    /\ d_pc = "put"
    /\ d_sent' = Append(d_sent, Request("PUT", d_put_url))
    /\ d_pc' = "returned"
    /\ d_result' = IF answer.kind = "failure" THEN "False"
                   ELSE IF RaisesForStatus(answer.status) THEN "False"
                   ELSE "True"
    /\ UNCHANGED << d_file, d_url, d_registry, d_token, d_data, d_headers,
                    d_put_url, d_post >>
    /\ UNCHANGED << buildVars, valueVars >>

\* ------------------------------------------------ the deployments explored
Statuses == {200, 201, 304, 400, 404, 409, 500}

ProcessIds == {Str(<<112, 49, 50, 51>>), Str(<<113>>)}

Bodies ==
    {NotJson, JArray, JObject(EmptyDict),
     JObject("additionalProperties" :> JString(Str(<<120>>))),
     JObject("additionalProperties" :> JObject(EmptyDict)),
     JObject([detail |-> JString(Str(<<100>>))])}
        \cup {JObject(("additionalProperties" :> JObject("processID" :> JString(p)))
                          @@ ("detail" :> JString(Str(<<100>>)))) :
                 p \in ProcessIds}

Answers == {Failure} \cup {Response(st, b) : st \in Statuses, b \in Bodies}

OldHref == Str(<<111, 108, 100>>)
CwlType == Str(<<99, 119, 108>>)

\* request templates: with an address, with an empty one, with none, with no
\* execution unit, and with an execution unit of null
RequestTemplates ==
    {[processDescription |-> Placeholder,
      executionUnit |-> [href |-> OldHref, type |-> CwlType]],
     [processDescription |-> Placeholder,
      executionUnit |-> [href |-> EmptyStr, type |-> CwlType]],
     [processDescription |-> Placeholder, executionUnit |-> [type |-> CwlType]],
     [processDescription |-> Placeholder],
     [processDescription |-> Placeholder, executionUnit |-> Null]}

CwlUrls == {Str(<<117>>), Str(<<119>>)}
Tokens == {Null, EmptyStr, Str(<<116>>)}
Registry == Str(<<114>>)

InitDeploy ==
    /\ BuildIdle
    /\ ValueIdle
    /\ d_pc = "start"
    /\ d_file \in RequestTemplates
    /\ d_url \in CwlUrls
    /\ d_registry = Registry
    /\ d_token \in Tokens
    /\ d_data = EmptyDict
    /\ d_headers = EmptyDict
    /\ d_put_url = Null
    /\ d_sent = <<>>
    /\ d_post = [kind |-> "none"]
    /\ d_result = "none"

NextDeploy ==
    \/ DeployAppPack
    \/ \E answer \in Answers : Post(answer)
    \/ \E answer \in Answers : Put(answer)

SpecDeploy == InitDeploy /\ [][NextDeploy]_vars

\* ===================================================== properties
\* --------------------------------------------- vocabulary of the properties
Inputs == ConfigInputs(config)
Outputs == ConfigOutputs(config)
InputName(n) == Get(Inputs[n], "name")

\* the document: what the file holds once it is written, else the one in memory
Doc == IF pc = "done" THEN files[WorkflowFileName(env)] ELSE workflow

\* the first loop is over and its three structures are in the document
InputsGrafted == pc \in {"outputs", "stamp", "dump", "done"}
\* the second loop is over and its three structures are in the document
OutputsGrafted == pc \in {"stamp", "dump", "done"}

\* every record has a name and no two records share one
NamesDistinct ==
    /\ \A n \in 1..Len(Inputs) : InputName(n) # Null
    /\ \A m, n \in 1..Len(Inputs) : m # n => InputName(m) # InputName(n)

\* two records carry the same name
HasDuplicateName ==
    \E m, n \in 1..Len(Inputs) :
        m < n /\ InputName(m) # Null /\ InputName(m) = InputName(n)

\* C1: with N input records of pairwise distinct names, the process-level
\* binding of the i-th record has position i and prefix "--" + its name, and
\* the positions are exactly 1..N, none missing and none twice.
C1_PositionsInOrder ==
    (InputsGrafted /\ NamesDistinct) =>
        LET bindings == Doc["$graph"][1]["inputs"]
        IN  /\ DOMAIN bindings = {InputName(n) : n \in 1..Len(Inputs)}
            /\ Cardinality(DOMAIN bindings) = Len(Inputs)
            /\ \A n \in 1..Len(Inputs) :
                   /\ bindings[InputName(n)].inputBinding.position = n
                   /\ bindings[InputName(n)].inputBinding.prefix
                          = Str(<<45, 45>> \o InputName(n).s)
            /\ {bindings[k].inputBinding.position : k \in DOMAIN bindings}
                   = 1..Len(Inputs)

\* a written document of two or more inputs with distinct names
C1_Witness == pc = "done" /\ Len(Inputs) >= 2 /\ NamesDistinct

\* C2: when two input records carry the same name the first loop never
\* completes, the run can only end in the uniqueness error, and no state of
\* the run has the output file written or the dump step reached.
C2_DuplicateFailsBeforeWrite ==
    HasDuplicateName =>
        /\ pc \in {"map", "inputs", "error"}
        /\ pc = "inputs" => nin < Len(Inputs)
        /\ pc = "error" => err = "ValueError"
        /\ files = EmptyDict

\* the run of a configuration with a repeated name has ended in the error
C2_Witness == HasDuplicateName /\ pc = "error" /\ err = "ValueError"

\* C3: a record without a default has no default entry in either structure;
\* a record with a default (a falsy one included) of type File or Directory
\* has {class: type, path: default} in both; with a default and any other
\* type it has the raw default in both. (A default of null is no default.)
C3_DefaultShaping ==
    InputsGrafted =>
        \A n \in 1..Len(Inputs) :
            LET decl == Doc["$graph"][0]["inputs"][InputName(n)]
                bind == Doc["$graph"][1]["inputs"][InputName(n)]
                type == Get(Inputs[n], "type")
                default == Get(Inputs[n], "default")
            IN  IF default = Null
                THEN "default" \notin DOMAIN decl /\ "default" \notin DOMAIN bind
                ELSE /\ "default" \in DOMAIN decl
                     /\ "default" \in DOMAIN bind
                     /\ decl["default"] = bind["default"]
                     /\ IF type \in {FileT, DirectoryT}
                        THEN /\ DOMAIN decl["default"] = {"class", "path"}
                             /\ decl["default"]["class"] = type
                             /\ decl["default"]["path"] = default
                        ELSE decl["default"] = default

\* a written document with a Directory input of falsy default and an input
\* of another type with a default
C3_Witness ==
    /\ pc = "done"
    /\ \E n \in 1..Len(Inputs) :
           /\ Get(Inputs[n], "type") = DirectoryT
           /\ Get(Inputs[n], "default") \in {EmptyStr, Zero, FalseV}
    /\ \E n \in 1..Len(Inputs) :
           /\ Get(Inputs[n], "type") \notin {FileT, DirectoryT}
           /\ Get(Inputs[n], "default") \notin {Null}

\* C6: in the document of a completed run the workflow-level input
\* declarations are keyed by exactly the names of the input records, and the
\* step binds each of those names to itself.
C6_InputKeysRoundTrip ==
    pc = "done" =>
        LET names == {InputName(n) : n \in 1..Len(Inputs)}
            step == Doc["$graph"][0]["steps"]["process"]["in"]
        IN  /\ DOMAIN Doc["$graph"][0]["inputs"] = names
            /\ DOMAIN step = names
            /\ \A k \in names : step[k] = k

\* a written document of two inputs
C6_Witness == pc = "done" /\ Len(Inputs) >= 2

\* C7: a record without a name or a type only warns: a run never halts
\* unless the template lacks a location or two records carry the same name.
C7_MissingFieldsNeverHalt ==
    pc = "error" => (err = "KeyError" \/ HasDuplicateName)

\* C10: with M >= 1 output records the process-level output bindings hold the
\* one key outputs_result, typed as the last record, and the step-level
\* output list holds outputs_result M times.
C10_OutputsCollide ==
    (OutputsGrafted /\ Len(Outputs) >= 1) =>
        LET bindings == Doc["$graph"][1]["outputs"]
            out == Doc["$graph"][0]["steps"]["process"]["out"]
        IN  /\ DOMAIN bindings = {"outputs_result"}
            /\ bindings["outputs_result"].type = Get(Outputs[Len(Outputs)], "type")
            /\ Len(out) = Len(Outputs)
            /\ \A n \in 1..Len(out) : out[n] = "outputs_result"

\* a written document of two outputs of different types
C10_Witness ==
    /\ pc = "done"
    /\ Len(Outputs) >= 2
    /\ Get(Outputs[1], "type") # Get(Outputs[Len(Outputs)], "type")

\* ------------------------------------------------ C9: the Field Mapper
\* the whole path leads to a value
RECURSIVE HasPath(_, _)
HasPath(w, path) ==
    \/ path = <<>>
    \/ /\ path[1] \in DOMAIN w
       /\ HasPath(w[path[1]], Tail(path))

\* the value a path leads to
RECURSIVE At(_, _)
At(w, path) == IF path = <<>> THEN w ELSE At(w[path[1]], Tail(path))

\* letters, digits and the space stay, anything else becomes "_"
Sanitized(text) ==
    [n \in 1..Len(text) |->
        IF \/ (text[n] >= 97 /\ text[n] <= 122)
           \/ (text[n] >= 65 /\ text[n] <= 90)
           \/ (text[n] >= 48 /\ text[n] <= 57)
           \/ text[n] = 32
        THEN text[n] ELSE 95]

\* the value the mapper is to leave at a destination
Normalized(target, value) ==
    IF target = <<"s:version">> THEN Str(Sanitized(PyStr(value))) ELSE value

\* locations of the templates that no destination path names
OtherLocations ==
    << <<"cwlVersion">>, <<"$graph", 0, "inputs">>, <<"$graph", 0, "outputs">>,
       <<"$graph", 0, "steps">>, <<"$graph", 1, "inputs">>,
       <<"$graph", 1, "outputs">>,
       <<"$graph", 1, "requirements", "DockerRequirement">>,
       <<"s:author", 0, "class">>, <<"s:contributor", 0, "class">> >>

\* the dictionaries and lists a destination path goes through
Containers ==
    << <<>>, <<"$graph">>, <<"$graph", 0>>, <<"$graph", 1>>,
       <<"$graph", 1, "requirements">>,
       <<"$graph", 1, "requirements", "ResourceRequirement">>,
       <<"s:author">>, <<"s:author", 0>>, <<"s:contributor">>,
       <<"s:contributor", 0>> >>

Parent(path) == SubSeq(path, 1, Len(path) - 1)

\* the keys the mapper may add to the container at `c`
Written(c) ==
    {OGC_CWL_KEY_MAP(key)[n][Len(OGC_CWL_KEY_MAP(key)[n])] :
        <<key, n>> \in {kn \in Keys \X (1..2) :
                           /\ kn[1] \in DOMAIN config
                           /\ kn[2] <= Len(OGC_CWL_KEY_MAP(kn[1]))
                           /\ Len(OGC_CWL_KEY_MAP(kn[1])[kn[2]]) = Len(c) + 1
                           /\ Parent(OGC_CWL_KEY_MAP(kn[1])[kn[2]]) = c}}

\* the Field Mapper loop is over and nothing else has touched the document
Mapped == pc = "inputs" /\ nin = 0

\* C9: after the loop every destination of a key the configuration holds has
\* the normalized value, every destination of a key it lacks is as in the
\* template (a warning each, no error), and no other location has changed.
C9_FieldMapperFrame ==
    /\ Mapped =>
          /\ \A key \in Keys :
                \A n \in 1..Len(OGC_CWL_KEY_MAP(key)) :
                    LET target == OGC_CWL_KEY_MAP(key)[n]
                    IN  IF key \in DOMAIN config
                        THEN /\ HasPath(workflow, target)
                             /\ At(workflow, target) = Normalized(target, config[key])
                        ELSE /\ HasPath(workflow, target) = HasPath(template, target)
                             /\ HasPath(template, target) =>
                                    At(workflow, target) = At(template, target)
          /\ \A n \in 1..Len(OtherLocations) :
                /\ HasPath(workflow, OtherLocations[n])
                       = HasPath(template, OtherLocations[n])
                /\ HasPath(template, OtherLocations[n]) =>
                       At(workflow, OtherLocations[n]) = At(template, OtherLocations[n])
          /\ \A n \in 1..Len(Containers) :
                HasPath(template, Containers[n]) =>
                    /\ HasPath(workflow, Containers[n])
                    /\ DOMAIN At(template, Containers[n])
                           \subseteq DOMAIN At(workflow, Containers[n])
                    /\ DOMAIN At(workflow, Containers[n])
                           \subseteq (DOMAIN At(template, Containers[n]))
                                         \cup Written(Containers[n])
          /\ warnings = Cardinality(Keys \ DOMAIN config)
    /\ (pc = "error" /\ err = "KeyError") =>
          \E key \in Keys \cap DOMAIN config :
              \E n \in 1..Len(OGC_CWL_KEY_MAP(key)) :
                  ~CanDescend(template, OGC_CWL_KEY_MAP(key)[n])

\* the loop has run on a configuration that holds algorithm_name and the
\* version and lacks another key
C9_Witness ==
    /\ Mapped
    /\ {"algorithm_name", "algorithm_version"} \subseteq DOMAIN config
    /\ Keys \ DOMAIN config # {}
    /\ At(workflow, <<"s:version">>) # config["algorithm_version"]

\* ------------------------------------------------ C4: process_value
\* C4: when the last path segment is the version key the result is a string
\* as long as the textual form of the value, with every ASCII letter, digit
\* and space kept in place and every other character replaced by "_"; with
\* any other last segment the value is returned unchanged.
C4_VersionSanitized ==
    pv_pc = "return" =>
        IF pv_target[Len(pv_target)] = "s:version"
        THEN LET text == PyStr(pv_value)
             IN  /\ pv_result.t = "str"
                 /\ Len(pv_result.s) = Len(text)
                 /\ \A n \in 1..Len(text) :
                        IF \/ (text[n] >= 97 /\ text[n] <= 122)
                           \/ (text[n] >= 65 /\ text[n] <= 90)
                           \/ (text[n] >= 48 /\ text[n] <= 57)
                           \/ text[n] = 32
                        THEN pv_result.s[n] = text[n]
                        ELSE pv_result.s[n] = 95
        ELSE pv_result = pv_value

\* a version string with a kept and a replaced character has been processed
C4_Witness ==
    /\ pv_pc = "return"
    /\ pv_target = <<"s:version">>
    /\ pv_value.t = "str"
    /\ \E m, n \in 1..Len(pv_value.s) :
           /\ pv_value.s[m] = 46 /\ pv_result.s[m] = 95
           /\ pv_value.s[n] = 97 /\ pv_result.s[n] = 97

\* ------------------------------------------------ C5: submit_request
Sent(method) == {n \in 1..Len(d_sent) : d_sent[n].method = method}

\* the POST was answered with this status
PostStatus(status) == d_post.kind = "response" /\ d_post.status = status

\* the body of the answer to the POST holds additionalProperties.processID
HasProcessId ==
    /\ d_post.body.json = "object"
    /\ "additionalProperties" \in DOMAIN d_post.body.members
    /\ d_post.body.members["additionalProperties"].json = "object"
    /\ "processID" \in
           DOMAIN d_post.body.members["additionalProperties"].members

PostedProcessId ==
    d_post.body.members["additionalProperties"].members["processID"].v

\* at most one POST and one PUT, and a PUT only after a POST answered 409
RequestsInOrder ==
    /\ Cardinality(Sent("POST")) <= 1
    /\ Cardinality(Sent("PUT")) <= 1
    /\ \A n \in Sent("PUT") :
           n = 2 /\ d_sent[1].method = "POST" /\ PostStatus(409)

\* a 409 that names the process is followed by one PUT to <endpoint>/<id>
ConflictIsPut ==
    (PostStatus(409) /\ HasProcessId) =>
        /\ d_pc \in {"put", "returned"}
        /\ d_pc = "returned" =>
               /\ Len(d_sent) = 2
               /\ d_sent[2].method = "PUT"
               /\ d_sent[2].url = Str(d_registry.s \o <<47>> \o PostedProcessId.s)

\* the POST was answered with a status of this set: no PUT, and failure
FailsWithoutPut(statuses) ==
    (d_post.kind = "response" /\ d_post.status \in statuses) =>
        /\ d_pc = "returned"
        /\ d_sent = << [method |-> "POST", url |-> d_registry, data |-> d_data,
                        headers |-> d_headers] >>
        /\ d_result = "False"

\* C5 (as stated): a 409 naming the process is followed by exactly one PUT to
\* <endpoint>/<id> and nothing more; any other status outside 2xx is followed
\* by no PUT and the result is False; at most one POST and one PUT are sent
\* and a PUT only after a 409.
C5_AsStated ==
    /\ RequestsInOrder
    /\ ConflictIsPut
    /\ FailsWithoutPut((100..599) \ ((200..299) \cup {409}))

\* C5 (amended): the same, the failure being that of the statuses 400..599
\* other than 409; a status below 400 is a success with no PUT.
C5_ErrorStatusFails ==
    /\ RequestsInOrder
    /\ ConflictIsPut
    /\ FailsWithoutPut((400..599) \ {409})
    /\ (d_post.kind = "response" /\ d_post.status < 400) =>
           (d_result = "True" /\ Sent("PUT") = {})

\* a 409 naming the process has been followed by the PUT
C5_Witness ==
    /\ d_pc = "returned"
    /\ PostStatus(409)
    /\ HasProcessId
    /\ Len(d_sent) = 2

\* ------------------------------------------------ C8: deploy_app_pack
\* submit_request has been called
Submitted == d_pc \in {"post", "put"} \/ d_sent # <<>>

\* the address the request template holds, None when it holds none
TemplateHref == Get(GetOr(d_file, "executionUnit", EmptyDict), "href")

HrefIs(data, url) ==
    /\ "executionUnit" \in DOMAIN data
    /\ "href" \in DOMAIN data["executionUnit"]
    /\ data["executionUnit"]["href"] = url

====
